---- MODULE Spec2Model ----
(***************************************************************************)
(* Model of wb_cards_dimensions_sync.py: the cursor paginator              *)
(* (iter_wb_cards), the row transformer (build_row_from_card) and the      *)
(* full-refresh loader (refresh_supabase_table with delete_all_rows and    *)
(* insert_rows_batch).                                                     *)
(*                                                                         *)
(* JSON values are records [t, m, e, s]: t is the type tag, (m, e) is the  *)
(* decimal number m * 10^-e (for a bool m is 1 or 0, for a list m is its   *)
(* length) and s is the text of a string as a sequence of characters.      *)
(* Floats are modelled as exact decimals m * 10^-e kept in normal form;    *)
(* round() is round-half-even on that decimal, which is what Python        *)
(* returns whenever the binary double is not within one ulp of a tie; the  *)
(* input sets below contain no such value.                                 *)
(***************************************************************************)
EXTENDS Integers, Sequences, FiniteSets

\* ------------------------------------------------------------------ bounds
MaxPageLen == 2      \* cards in one page of the source
MaxCards == 2        \* cards the source holds in one run
MaxRuns == 2         \* successive runs of the refresh
MaxRows == 1001      \* buffered rows in the chunking specification

\* ------------------------------------------------------- program constants
DefaultLimit == 100  \* iter_wb_cards(limit=100)
batch_size == 500
DeleteFilterGt == 0  \* params = {"nm_id": "gt.0"}

\* -------------------------------------------------------------- JSON values
JNull == [t |-> "null", m |-> 0, e |-> 0, s |-> <<>>]
JAbsent == [t |-> "absent", m |-> 0, e |-> 0, s |-> <<>>]
JNum(m, e) == [t |-> "num", m |-> m, e |-> e, s |-> <<>>]
JInt(n) == JNum(n, 0)
JStr(s) == [t |-> "str", m |-> 0, e |-> 0, s |-> s]
JBool(b) == [t |-> "bool", m |-> IF b THEN 1 ELSE 0, e |-> 0, s |-> <<>>]
JList(n) == [t |-> "list", m |-> n, e |-> 0, s |-> <<>>]

\* dict.get(key): the value, None when the key is missing
Get(v) == IF v.t = "absent" THEN JNull ELSE v

\* Python truthiness: None, 0, 0.0, "", False and [] are falsy
Truthy(v) ==
  CASE v.t = "null" -> FALSE
    [] v.t = "absent" -> FALSE
    [] v.t = "num" -> v.m # 0
    [] v.t = "bool" -> v.m # 0
    [] v.t = "str" -> v.s # <<>>
    [] v.t = "list" -> v.m # 0
    [] OTHER -> FALSE

\* a or b
PyOr(a, b) == IF Truthy(a) THEN a ELSE b

\* ------------------------------------------------------------------ floats
RECURSIVE Pow10(_)
Pow10(n) == IF n = 0 THEN 1 ELSE 10 * Pow10(n - 1)

Abs(x) == IF x < 0 THEN -x ELSE x
Sign(x) == IF x < 0 THEN -1 ELSE 1

\* the decimal m * 10^-e without trailing zeros in its fraction
RECURSIVE Norm(_, _)
Norm(m, e) ==
  IF e > 0 /\ m % 10 = 0 THEN Norm(m \div 10, e - 1) ELSE [m |-> m, e |-> e]

DigitChars == {"0", "1", "2", "3", "4", "5", "6", "7", "8", "9"}

DigitVal(c) ==
  CASE c = "0" -> 0 [] c = "1" -> 1 [] c = "2" -> 2 [] c = "3" -> 3
    [] c = "4" -> 4 [] c = "5" -> 5 [] c = "6" -> 6 [] c = "7" -> 7
    [] c = "8" -> 8 [] c = "9" -> 9

\* float(str) strips surrounding whitespace first
RECURSIVE StripLeft(_)
StripLeft(s) == IF s # <<>> /\ Head(s) = " " THEN StripLeft(Tail(s)) ELSE s

RECURSIVE StripRight(_)
StripRight(s) ==
  IF s # <<>> /\ s[Len(s)] = " " THEN StripRight(SubSeq(s, 1, Len(s) - 1)) ELSE s

\* digits [ "." digits ], at least one digit: the unsigned decimal forms of
\* float(str); every other text (letters, a second point, nothing) is a
\* ValueError.  n counts the digits read.
RECURSIVE ScanNumber(_, _, _, _, _)
ScanNumber(s, m, e, seenDot, n) ==
  IF s = <<>> THEN [ok |-> n > 0, m |-> m, e |-> e]
  ELSE LET c == Head(s) IN
    IF c \in DigitChars
      THEN ScanNumber(Tail(s), m * 10 + DigitVal(c),
                      IF seenDot THEN e + 1 ELSE e, seenDot, n + 1)
    ELSE IF c = "." /\ ~seenDot THEN ScanNumber(Tail(s), m, e, TRUE, n)
    ELSE [ok |-> FALSE, m |-> 0, e |-> 0]

\* float(s) of a string: [ok, m, e], ok = FALSE for ValueError
ParseFloat(s) ==
  LET t == StripRight(StripLeft(s))
      neg == t # <<>> /\ Head(t) = "-"
      signed == t # <<>> /\ Head(t) \in {"-", "+"}
      r == ScanNumber(IF signed THEN Tail(t) ELSE t, 0, 0, FALSE, 0)
      x == Norm(IF neg THEN -r.m ELSE r.m, r.e)
  IN IF r.ok THEN [ok |-> TRUE, m |-> x.m, e |-> x.e]
     ELSE [ok |-> FALSE, m |-> 0, e |-> 0]

\* float(v): [ok, m, e]; ok = FALSE stands for TypeError (None, list) or
\* ValueError (text that is no number)
PyFloat(v) ==
  CASE v.t = "num" -> [ok |-> TRUE, m |-> Norm(v.m, v.e).m, e |-> Norm(v.m, v.e).e]
    [] v.t = "bool" -> [ok |-> TRUE, m |-> v.m, e |-> 0]
    [] v.t = "str" -> ParseFloat(v.s)
    [] OTHER -> [ok |-> FALSE, m |-> 0, e |-> 0]

\* round(x, n) of the float m * 10^-e, half to even
PyRound(x, n) ==
  IF x.e <= n THEN Norm(x.m, x.e)
  ELSE LET d == Pow10(x.e - n)
           a == Abs(x.m)
           q == a \div d
           r == a % d
           up == IF 2 * r > d THEN 1
                 ELSE IF 2 * r = d THEN q % 2
                 ELSE 0
       IN Norm(Sign(x.m) * (q + up), n)

\* the volume taken from the dimensions as stored, rounded to 2 decimals
VolumeRounded(length, width, height) ==
  LET l == PyRound(length, 2)
      w == PyRound(width, 2)
      h == PyRound(height, 2)
  IN Norm(l.m * w.m * h.m, l.e + w.e + h.e + 3)

\* (length * width * height) / 1000.0
Volume(length, width, height) ==
  Norm(length.m * width.m * height.m, length.e + width.e + height.e + 3)

FloatJ(x) == JNum(x.m, x.e)

\* ------------------------------------------------------------------- cards
\* the "dimensions" block of a card: t is "obj", "null" or "absent"
Dims(l, w, h, wb) ==
  [t |-> "obj", length |-> l, width |-> w, height |-> h, weightBrutto |-> wb]
NoDims(t) ==
  [t |-> t, length |-> JAbsent, width |-> JAbsent, height |-> JAbsent,
   weightBrutto |-> JAbsent]

Card(nm, upd, obj, objName, dims) ==
  [nmID |-> nm, vendorCode |-> JStr(<<"v">>), brand |-> JStr(<<"b">>),
   object |-> obj, objectName |-> objName, updatedAt |-> upd,
   dimensions |-> dims]

\* card.get("dimensions") or {}
DimensionsOf(card) ==
  IF card.dimensions.t = "obj" THEN card.dimensions ELSE NoDims("obj")

\* all([length, width, height])
AllGiven(length, width, height) ==
  Truthy(length) /\ Truthy(width) /\ Truthy(height)

NoRow ==
  [nm_id |-> JNull, vendor_code |-> JNull, brand |-> JNull,
   object_name |-> JNull, length_cm |-> JNull, width_cm |-> JNull,
   height_cm |-> JNull, weight_brutto_kg |-> JNull, volume_liters |-> JNull,
   updated_at_wb |-> JNull]

\* what a call of build_row_from_card ends with: a row, None, or an
\* exception that leaves the function
Returned(row) == [kind |-> "row", row |-> row]
ReturnedNone == [kind |-> "none", row |-> NoRow]
Raised == [kind |-> "raise", row |-> NoRow]
NotCalled == [kind |-> "notcalled", row |-> NoRow]

\* a weight coercion that gives None for what is no number
WeightOfGuarded(weight_brutto) ==
  IF weight_brutto.t = "null" THEN [ok |-> TRUE, v |-> JNull]
  ELSE LET f == PyFloat(weight_brutto)
       IN [ok |-> TRUE, v |-> IF f.ok THEN JNum(f.m, f.e) ELSE JNull]

\* float(weight_brutto) if weight_brutto is not None else None
WeightOf(weight_brutto) ==
  IF weight_brutto.t = "null" THEN [ok |-> TRUE, v |-> JNull]
  ELSE LET f == PyFloat(weight_brutto)
       IN [ok |-> f.ok, v |-> IF f.ok THEN JNum(f.m, f.e) ELSE JNull]

build_row_from_card(card) ==
  LET nm_id == Get(card.nmID)
      vendor_code == Get(card.vendorCode)
      brand == Get(card.brand)
      object_name == PyOr(Get(card.object), Get(card.objectName))
      dimensions == DimensionsOf(card)
      length == Get(dimensions.length)
      width == Get(dimensions.width)
      height == Get(dimensions.height)
      weight_brutto == Get(dimensions.weightBrutto)
      updated_at_wb == Get(card.updatedAt)
  IN IF ~AllGiven(length, width, height) THEN ReturnedNone
     ELSE LET fl == PyFloat(length)
              fw == PyFloat(width)
              fh == PyFloat(height)
          IN IF ~(fl.ok /\ fw.ok /\ fh.ok) THEN ReturnedNone
             ELSE LET wt == WeightOf(weight_brutto)
                  IN IF ~wt.ok THEN Raised
                     ELSE Returned(
                       [nm_id |-> nm_id, vendor_code |-> vendor_code,
                        brand |-> brand, object_name |-> object_name,
                        length_cm |-> FloatJ(PyRound(fl, 2)),
                        width_cm |-> FloatJ(PyRound(fw, 2)),
                        height_cm |-> FloatJ(PyRound(fh, 2)),
                        weight_brutto_kg |-> wt.v,
                        volume_liters |-> FloatJ(PyRound(Volume(fl, fw, fh), 3)),
                        updated_at_wb |-> updated_at_wb])

\* ------------------------------------------------------------ sample cards
Ten == JInt(10)
Two == JInt(2)
\* complete integer dimensions 10, 10, 10 and weight 2
CardA == Card(JInt(1), JStr(<<"a">>), JStr(<<"o">>), JAbsent, Dims(Ten, Ten, Ten, Two))
\* no height, and a weight that is no number
CardB ==
  Card(JInt(2), JStr(<<"b">>), JAbsent, JStr(<<"n">>),
       Dims(Ten, Ten, JAbsent, JStr(<<"x">>)))
\* complete dimensions, nmID 0
CardC == Card(JInt(0), JStr(<<"c">>), JAbsent, JAbsent, Dims(Ten, Ten, Ten, JAbsent))
\* complete dimensions, a weight that is no number
CardD == Card(JInt(4), JStr(<<"d">>), JAbsent, JAbsent, Dims(Ten, Ten, Ten, JStr(<<"x">>)))
SampleCards == {CardA, CardB, CardC, CardD}

\* sequences over S of length lo..hi
SeqsOf(S, lo, hi) == UNION {[1..n -> S] : n \in lo..hi}

Min(a, b) == IF a < b THEN a ELSE b

\* ----------------------------------------------------------------- source
\* the "cursor" object a response echoes; t = "absent" when it has none
Echo(total, lim, upd, nm) ==
  [t |-> "obj", total |-> total, limit |-> lim, updatedAt |-> upd, nmID |-> nm]
NoEcho ==
  [t |-> "absent", total |-> JAbsent, limit |-> JAbsent, updatedAt |-> JAbsent,
   nmID |-> JAbsent]

\* (total, limit) pairs a response may echo: a short page and a full page
\* with the limit echoed as sent, and a page with the limit lowered by the
\* server
EchoPairs ==
  {<<JInt(50), JInt(100)>>, <<JInt(100), JInt(100)>>, <<JInt(50), JInt(10)>>}

\* the echoes that may come with a page: none, or total and limit with the
\* position (updatedAt, nmID) of the page's last card
EchoesFor(cards) ==
  {NoEcho} \cup
  {Echo(p[1], p[2], cards[Len(cards)].updatedAt, cards[Len(cards)].nmID) :
     p \in EchoPairs}

\* the pages the source may answer with while it holds n more cards
PagesFor(n) == SeqsOf(SampleCards, 0, Min(MaxPageLen, n))

\* ------------------------------------------------------------------ state
VARIABLES
  pc,        \* where the run is: "fetch", "yield", "build", "advance",
             \* "delete", "insert", "done", "failed"; "transform" and
             \* "returned" in the transformer's own specification
  run,       \* number of the run, 1..MaxRuns
  stock,     \* cards the source still holds in this run
  cursor,    \* iter_wb_cards: cursor
  limit,     \* iter_wb_cards: limit
  page,      \* iter_wb_cards: cards
  cur,       \* iter_wb_cards: the response's echoed cursor
  idx,       \* position of the for loop in cards
  card,      \* refresh_supabase_table: card
  result,    \* what build_row_from_card(card) ended with
  rows,      \* refresh_supabase_table: rows
  i,         \* refresh_supabase_table: i of the insert loop
  dest,      \* the table wb_cards_dimensions
  emitted,   \* history: the cards the paginator yielded in this run
  built,     \* history: the results of build_row_from_card in this run
  reqs,      \* history: the cursors sent in this run
  resps,     \* history: the responses received in this run
  calls,     \* history: the external calls of this run, [op, ok]
  inserted,  \* history: the batches posted in this run
  ret,       \* what refresh_supabase_table returned; absent until it returns
  snapshot   \* history: the table as this run found it

vars ==
  <<pc, run, stock, cursor, limit, page, cur, idx, card, result, rows, i,
    dest, emitted, built, reqs, resps, calls, inserted, ret, snapshot>>

NoCard == Card(JAbsent, JAbsent, JAbsent, JAbsent, NoDims("absent"))

\* cursor = {"limit": limit}
FirstCursor(lim) == [limit |-> lim, updatedAt |-> JAbsent, nmID |-> JAbsent]

Call(op, ok) == [op |-> op, ok |-> ok]

\* the locals of a fresh call of refresh_supabase_table
RunStart ==
  /\ pc = "fetch"
  /\ stock = MaxCards
  /\ cursor = FirstCursor(DefaultLimit)
  /\ limit = DefaultLimit
  /\ page = <<>>
  /\ cur = NoEcho
  /\ idx = 0
  /\ card = NoCard
  /\ result = NotCalled
  /\ rows = <<>>
  /\ i = 0
  /\ emitted = <<>>
  /\ built = <<>>
  /\ reqs = <<>>
  /\ resps = <<>>
  /\ calls = <<>>
  /\ inserted = <<>>
  /\ ret = JAbsent

Init ==
  /\ RunStart
  /\ run = 1
  /\ dest = <<>>
  /\ snapshot = <<>>

\* ------------------------------------------------------------- iter_wb_cards
\* a failed fetch taken for the end of the pages
FetchFailEndsPages ==
  /\ pc = "fetch"
  /\ reqs' = Append(reqs, cursor)
  /\ calls' = Append(calls, Call("fetch", FALSE))
  /\ pc' = "delete"
  /\ UNCHANGED <<run, stock, cursor, limit, page, cur, idx, card, result, rows,
                 i, dest, emitted, built, resps, inserted,
                 ret, snapshot>>

\* requests.post or resp.raise_for_status() raises: the exception leaves the
\* generator and refresh_supabase_table
FetchFail ==
  /\ pc = "fetch"
  /\ reqs' = Append(reqs, cursor)
  /\ calls' = Append(calls, Call("fetch", FALSE))
  /\ pc' = "failed"
  /\ UNCHANGED <<run, stock, cursor, limit, page, cur, idx, card, result, rows,
                 i, dest, emitted, built, resps, inserted,
                 ret, snapshot>>

\* a response arrives; an empty card list ends the generator, and with it the
\* for loop of refresh_supabase_table
FetchPage ==
  /\ pc = "fetch"
  /\ \E cards \in PagesFor(stock) :
       \E echo \in (IF cards = <<>> THEN {NoEcho} ELSE EchoesFor(cards)) :
         /\ reqs' = Append(reqs, cursor)
         /\ resps' = Append(resps, [cards |-> cards, cursor |-> echo])
         /\ calls' = Append(calls, Call("fetch", TRUE))
         /\ stock' = stock - Len(cards)
         /\ page' = cards
         /\ cur' = echo
         /\ idx' = 1
         /\ pc' = IF cards = <<>> THEN "delete" ELSE "yield"
  /\ UNCHANGED <<run, cursor, limit, card, result, rows, i, dest, emitted,
                 built, inserted,
                 ret, snapshot>>

\* for card in cards: yield card
Yield ==
  /\ pc = "yield"
  /\ card' = page[idx]
  /\ emitted' = Append(emitted, page[idx])
  /\ pc' = "build"
  /\ UNCHANGED <<run, stock, cursor, limit, page, cur, idx, result, rows, i,
                 dest, reqs, resps, calls, built, inserted,
                 ret, snapshot>>

\* a missing total taken for a full page
EchoTotalMissingIsFull(echo) ==
  IF echo.t = "absent" \/ echo.total.t = "absent" THEN DefaultLimit
  ELSE echo.total.m

\* total = cur.get("total", 0) of cur = data.get("cursor") or {}
EchoTotal(echo) ==
  IF echo.t = "absent" \/ echo.total.t = "absent" THEN 0 ELSE echo.total.m

\* limit = cur.get("limit", cursor.get("limit", limit))
EchoLimit(echo, c, lim) ==
  IF echo.t = "absent" \/ echo.limit.t = "absent" THEN c.limit ELSE echo.limit.m

\* the comparison turned around
LastPageFlipped(total, lim) == total > lim

\* if total < limit: break
LastPage(total, lim) == total < lim

\* the next cursor without the echoed position
NextCursorNoPosition(echo, lim) ==
  [limit |-> lim, updatedAt |-> JNull, nmID |-> JNull]

\* cursor = {"updatedAt": ..., "nmID": ..., "limit": limit}
NextCursor(echo, lim) ==
  [limit |-> lim,
   updatedAt |-> IF echo.t = "absent" THEN JNull ELSE Get(echo.updatedAt),
   nmID |-> IF echo.t = "absent" THEN JNull ELSE Get(echo.nmID)]

\* the loop without its break on a short page
AdvanceWithoutBreak ==
  /\ pc = "advance"
  /\ LET lim == EchoLimit(cur, cursor, limit)
     IN /\ limit' = lim
        /\ pc' = "fetch"
        /\ cursor' = NextCursor(cur, lim)
  /\ UNCHANGED <<run, stock, page, cur, idx, card, result, rows, i, dest,
                 emitted, built, reqs, resps, calls, inserted,
                 ret, snapshot>>

\* the generator is resumed after the page's last card: it reads the echoed
\* cursor and either ends or prepares the next request
Advance ==
  /\ pc = "advance"
  /\ LET total == EchoTotal(cur)
         lim == EchoLimit(cur, cursor, limit)
     IN /\ limit' = lim
        /\ IF LastPage(total, lim)
             THEN pc' = "delete" /\ cursor' = cursor
             ELSE pc' = "fetch" /\ cursor' = NextCursor(cur, lim)
  /\ UNCHANGED <<run, stock, page, cur, idx, card, result, rows, i, dest,
                 emitted, built, reqs, resps, calls, inserted,
                 ret, snapshot>>

\* ---------------------------------------------------- refresh_supabase_table
\* the row appended whatever it is
AppendAlways(buf, res) == Append(buf, res.row)

\* if row: rows.append(row)
AppendIfRow(buf, res) == IF res.kind = "row" THEN Append(buf, res.row) ELSE buf

\* the body of the for loop: row = build_row_from_card(card), kept when it
\* is a row; an exception of build_row_from_card leaves the run
Build ==
  /\ pc = "build"
  /\ LET res == build_row_from_card(card)
     IN /\ result' = res
        /\ built' = Append(built, res.kind)
        /\ IF res.kind = "raise"
             THEN pc' = "failed" /\ rows' = rows /\ idx' = idx
             ELSE /\ rows' = AppendIfRow(rows, res)
                  /\ idx' = idx + 1
                  /\ pc' = IF idx < Len(page) THEN "yield" ELSE "advance"
  /\ UNCHANGED <<run, stock, cursor, limit, page, cur, card, i, dest, emitted,
                 reqs, resps, calls, inserted,
                 ret, snapshot>>

\* the rows DELETE ...?nm_id=gt.0 matches
Matches(row) == row.nm_id.t = "num" /\ row.nm_id.m > DeleteFilterGt

\* delete_all_rows: the table without the rows the filter matches
delete_all_rows(table) == SelectSeq(table, LAMBDA r : ~Matches(r))

DeleteOk ==
  /\ pc = "delete"
  /\ calls' = Append(calls, Call("delete", TRUE))
  /\ dest' = delete_all_rows(dest)
  /\ i' = 0
  /\ pc' = "insert"
  /\ UNCHANGED <<run, stock, cursor, limit, page, cur, idx, card, result, rows,
                 emitted, built, reqs, resps, inserted,
                 ret, snapshot>>

\* a failed delete that does not stop the run
DeleteFailIgnored ==
  /\ pc = "delete"
  /\ calls' = Append(calls, Call("delete", FALSE))
  /\ pc' = "insert"
  /\ UNCHANGED <<run, stock, cursor, limit, page, cur, idx, card, result, rows,
                 i, dest, emitted, built, reqs, resps, inserted,
                 ret, snapshot>>

\* requests.delete or raise_for_status() raises
DeleteFail ==
  /\ pc = "delete"
  /\ calls' = Append(calls, Call("delete", FALSE))
  /\ pc' = "failed"
  /\ UNCHANGED <<run, stock, cursor, limit, page, cur, idx, card, result, rows,
                 i, dest, emitted, built, reqs, resps, inserted,
                 ret, snapshot>>

\* a slice one row too long
BatchAtInclusive(buf, k) == SubSeq(buf, k + 1, Min(k + batch_size + 1, Len(buf)))

\* batch = rows[i: i + batch_size]
BatchAt(buf, k) == SubSeq(buf, k + 1, Min(k + batch_size, Len(buf)))

\* for i in range(0, total, batch_size): insert_rows_batch(batch) succeeds
InsertOk ==
  /\ pc = "insert"
  /\ i < Len(rows)
  /\ LET batch == BatchAt(rows, i)
     IN /\ batch # <<>>
        /\ inserted' = Append(inserted, batch)
        /\ calls' = Append(calls, Call("insert", TRUE))
        /\ dest' = dest \o batch
  /\ i' = i + batch_size
  /\ UNCHANGED <<pc, run, stock, cursor, limit, page, cur, idx, card, result,
                 rows, emitted, built, reqs, resps,
                 ret, snapshot>>

\* a failed insert after which the loop goes on to the same batch
InsertFailRetried ==
  /\ pc = "insert"
  /\ i < Len(rows)
  /\ LET batch == BatchAt(rows, i)
     IN /\ batch # <<>>
        /\ inserted' = Append(inserted, batch)
        /\ calls' = Append(calls, Call("insert", FALSE))
  /\ UNCHANGED <<pc, run, stock, cursor, limit, page, cur, idx, card, result,
                 rows, i, dest, emitted, built, reqs, resps,
                 ret, snapshot>>

\* requests.post or raise_for_status() raises in insert_rows_batch
InsertFail ==
  /\ pc = "insert"
  /\ i < Len(rows)
  /\ LET batch == BatchAt(rows, i)
     IN /\ batch # <<>>
        /\ inserted' = Append(inserted, batch)
        /\ calls' = Append(calls, Call("insert", FALSE))
  /\ pc' = "failed"
  /\ UNCHANGED <<run, stock, cursor, limit, page, cur, idx, card, result, rows,
                 i, dest, emitted, built, reqs, resps,
                 ret, snapshot>>

\* a return of the number of rows
ReturnsCount(buf) == JInt(Len(buf))

\* the function has no return statement: it returns None
ReturnValue(buf) == JNull

\* the range is used up: print("Done.")
Finish ==
  /\ pc = "insert"
  /\ i >= Len(rows)
  /\ pc' = "done"
  /\ ret' = ReturnValue(rows)
  /\ UNCHANGED <<run, stock, cursor, limit, page, cur, idx, card, result, rows,
                 i, dest, emitted, built, reqs, resps, calls, inserted,
                 snapshot>>

\* the script is run again: a new process, the same table
StartRun ==
  /\ pc \in {"done", "failed"}
  /\ run < MaxRuns
  /\ run' = run + 1
  /\ pc' = "fetch"
  /\ stock' = MaxCards
  /\ cursor' = FirstCursor(DefaultLimit)
  /\ limit' = DefaultLimit
  /\ page' = <<>>
  /\ cur' = NoEcho
  /\ idx' = 0
  /\ card' = NoCard
  /\ result' = NotCalled
  /\ rows' = <<>>
  /\ i' = 0
  /\ emitted' = <<>>
  /\ built' = <<>>
  /\ reqs' = <<>>
  /\ resps' = <<>>
  /\ calls' = <<>>
  /\ inserted' = <<>>
  /\ ret' = JAbsent
  /\ snapshot' = dest
  /\ UNCHANGED dest

Next ==
  \/ FetchFail
  \/ FetchPage
  \/ Yield
  \/ Build
  \/ Advance
  \/ DeleteOk
  \/ DeleteFail
  \/ InsertOk
  \/ InsertFail
  \/ Finish
  \/ StartRun

Spec == Init /\ [][Next]_vars

\* ------------------------------------------- the transformer on its own
\* the values a dimension of a card may hold
DimValues ==
  {JAbsent, JNull, JInt(0), JInt(10), JInt(100), JNum(1004, 3), JInt(-5),
   JNum(2, 3), JStr(<<"0">>), JStr(<<"1", "0">>), JStr(<<"a", "b", "c">>),
   JStr(<<>>), JStr(<<" ", "1", ".", "2", " ">>), JBool(TRUE), JList(1)}
WeightValues == {JAbsent, JInt(2), JStr(<<"2", ".", "5">>), JStr(<<"x">>)}
NmValues == {JAbsent, JInt(0), JInt(-1), JInt(7)}

RowCards ==
  {Card(nm, JStr(<<"u">>), JAbsent, JStr(<<"n">>), Dims(l, w, h, wb)) :
     nm \in NmValues, l \in DimValues, w \in DimValues, h \in DimValues,
     wb \in WeightValues}
  \cup {Card(nm, JStr(<<"u">>), JStr(<<"o">>), JAbsent, NoDims(t)) :
          nm \in NmValues, t \in {"absent", "null"}}

\* build_row_from_card is about to be called on a card
InitRow ==
  /\ pc = "transform"
  /\ card \in RowCards
  /\ result = NotCalled
  /\ run = 1
  /\ stock = 0
  /\ cursor = FirstCursor(DefaultLimit)
  /\ limit = DefaultLimit
  /\ page = <<>>
  /\ cur = NoEcho
  /\ idx = 0
  /\ rows = <<>>
  /\ i = 0
  /\ dest = <<>>
  /\ emitted = <<>>
  /\ built = <<>>
  /\ reqs = <<>>
  /\ resps = <<>>
  /\ calls = <<>>
  /\ inserted = <<>>
  /\ ret = JAbsent
  /\ snapshot = <<>>

\* row = build_row_from_card(card)
Transform ==
  /\ pc = "transform"
  /\ result' = build_row_from_card(card)
  /\ built' = Append(built, result'.kind)
  /\ pc' = "returned"
  /\ UNCHANGED <<run, stock, cursor, limit, page, cur, idx, card, rows, i,
                 dest, emitted, reqs, resps, calls, inserted,
                 ret, snapshot>>

NextRow == Transform

SpecRow == InitRow /\ [][NextRow]_vars

\* ------------------------------------------------ the loader on its own
\* the row of a card with complete dimensions
BufferRow ==
  build_row_from_card(
    Card(JInt(1), JStr(<<"u">>), JAbsent, JAbsent, Dims(Ten, Ten, Ten, Two))).row

\* a buffer of n rows: the k-th is the row of that card with nmID k (nm_id
\* is the card's nmID as it is)
BufferOf(n) ==
  LET r == BufferRow
  IN [k \in 1..n |-> [r EXCEPT !.nm_id = JInt(k)]]

\* refresh_supabase_table has drained the paginator into a buffer of n rows
\* (the histories of the drain are left empty) and is about to delete
InitChunk ==
  /\ pc = "delete"
  /\ \E n \in 0..MaxRows : rows = BufferOf(n)
  /\ card = NoCard
  /\ result = NotCalled
  /\ run = 1
  /\ stock = 0
  /\ cursor = FirstCursor(DefaultLimit)
  /\ limit = DefaultLimit
  /\ page = <<>>
  /\ cur = NoEcho
  /\ idx = 0
  /\ i = 0
  /\ dest = <<>>
  /\ emitted = <<>>
  /\ built = <<>>
  /\ reqs = <<>>
  /\ resps = <<>>
  /\ calls = <<>>
  /\ inserted = <<>>
  /\ ret = JAbsent
  /\ snapshot = <<>>

NextChunk ==
  \/ DeleteOk
  \/ DeleteFail
  \/ InsertOk
  \/ InsertFail
  \/ Finish

SpecChunk == InitChunk /\ [][NextChunk]_vars

\* ------------------------------------------------ histories, for the claims
RECURSIVE Flatten(_)
Flatten(ss) == IF ss = <<>> THEN <<>> ELSE Head(ss) \o Flatten(Tail(ss))

\* the cards of the responses received so far, in the order received
ReceivedCards == Flatten([k \in 1..Len(resps) |-> resps[k].cards])

\* the calls made to the destination in this run
DestCalls == SelectSeq(calls, LAMBDA c : c.op # "fetch")

IsPrefix(a, b) == Len(a) <= Len(b) /\ a = SubSeq(b, 1, Len(a))

\* the rows build_row_from_card returns for a sequence of cards, in order
RECURSIVE Accepted(_)
Accepted(cards) ==
  IF cards = <<>> THEN <<>>
  ELSE LET r == build_row_from_card(Head(cards))
       IN (IF r.kind = "row" THEN <<r.row>> ELSE <<>>) \o Accepted(Tail(cards))

\* the generator of this run has ended normally: its last response had no
\* cards, or a total below the limit it left the loop with
PaginatorEnded ==
  /\ resps # <<>>
  /\ \A k \in 1..Len(calls) : calls[k].op = "fetch" => calls[k].ok
  /\ LET r == resps[Len(resps)]
     IN r.cards = <<>> \/ EchoTotal(r.cursor) < limit

\* C1: no destination call is issued before the paginator is exhausted and
\* every emitted card has gone through build_row_from_card; the first
\* destination call is the one delete-all, and inserts follow only a delete
\* that succeeded.
C1_DrainThenDeleteThenInsert ==
  LET d == DestCalls
  IN /\ d # <<>> =>
          /\ PaginatorEnded
          /\ emitted = ReceivedCards
          /\ Len(built) = Len(emitted)
          /\ \A k \in 1..Len(built) : built[k] \in {"row", "none"}
          /\ \A j, k \in 1..Len(calls) :
               j < k /\ calls[k].op = "fetch" => calls[j].op = "fetch"
          /\ d[1].op = "delete"
          /\ \A k \in 2..Len(d) : d[k].op = "insert" /\ d[1].ok
     /\ pc \in {"insert", "done"} =>
          Len(SelectSeq(d, LAMBDA c : c.op = "delete")) = 1

C1_Witness ==
  /\ pc = "done"
  /\ Len(resps) >= 2
  /\ Len(emitted) >= 2
  /\ Len(DestCalls) = 2

\* C2: after a run that completes without error the table holds exactly the
\* rows buffered in that run, whatever earlier runs wrote.
C2_TableIsBuffer == pc = "done" => dest = rows

\* C3: if the delete-all call fails, the run ends with the error and makes
\* no insert call.
C3_DeleteFailNoInsert ==
  (\E k \in 1..Len(calls) : calls[k] = Call("delete", FALSE)) =>
     /\ pc = "failed"
     /\ inserted = <<>>
     /\ \A k \in 1..Len(calls) : calls[k].op # "insert"

C3_Witness ==
  /\ \E k \in 1..Len(calls) : calls[k] = Call("delete", FALSE)
  /\ rows # <<>>

CeilDiv(a, b) == (a + b - 1) \div b

\* C4: a successful refresh of a buffer of n rows posts ceil(n/500) batches,
\* all of 500 rows but the last, which has 1..500; the batches concatenated
\* in the order posted are the buffer, and while the run lasts they are a
\* prefix of it.
C4_Chunks ==
  LET n == Len(rows)
      c == Len(inserted)
  IN /\ IsPrefix(Flatten(inserted), rows)
     /\ \A k \in 1..c : Len(inserted[k]) \in 1..500
     /\ \A k \in 1..(c - 1) : Len(inserted[k]) = 500
     /\ pc = "done" =>
          /\ c = CeilDiv(n, 500)
          /\ Flatten(inserted) = rows
          /\ dest = rows

C4_Witness ==
  /\ pc = "done"
  /\ Len(rows) = 501
  /\ Len(inserted) = 2
  /\ Len(inserted[1]) = 500
  /\ Len(inserted[2]) = 1

\* the row of CardA: 10 x 10 x 10 cm, 2 kg, 1.0 litre
RowA ==
  [nm_id |-> JInt(1), vendor_code |-> JStr(<<"v">>), brand |-> JStr(<<"b">>),
   object_name |-> JStr(<<"o">>), length_cm |-> JInt(10), width_cm |-> JInt(10),
   height_cm |-> JInt(10), weight_brutto_kg |-> JInt(2),
   volume_liters |-> JInt(1), updated_at_wb |-> JStr(<<"a">>)]

ScenarioA ==
  /\ pc = "done"
  /\ resps[1].cards = <<CardA, CardB>>
  /\ Len(emitted) = 2

\* C5: the buffer is the sequence of rows build_row_from_card returns for the
\* emitted cards, in emission order, a card with no row adding nothing, and
\* it is what a completed run has posted; one page of a 10,10,10 card and a
\* card without height gives one row, one delete and one batch of that row.
C5_BufferIsAcceptedRows ==
  /\ rows = Accepted(SubSeq(emitted, 1, Len(built)))
  /\ pc \in {"delete", "insert", "done"} => rows = Accepted(emitted)
  /\ pc = "done" => Flatten(inserted) = rows
  /\ ScenarioA =>
       /\ rows = <<RowA>>
       /\ DestCalls = <<Call("delete", TRUE), Call("insert", TRUE)>>
       /\ inserted = << <<RowA>> >>

C5_Witness == ScenarioA /\ inserted = << <<RowA>> >>

\* the limit a response leaves in effect: the one it echoes, else the one sent
LimitAfter(k) ==
  IF resps[k].cursor.t = "obj" /\ resps[k].cursor.limit.t # "absent"
    THEN resps[k].cursor.limit.m
    ELSE reqs[k].limit

\* C6 (as stated): after an empty page, or a page whose echoed total is less
\* than the limit requested, no further page is fetched, and the cards are
\* emitted in page order, each once.
C6_EndsOnShortOfRequested ==
  /\ \A k \in 1..Len(resps) :
       (\/ resps[k].cards = <<>>
        \/ /\ resps[k].cursor.t = "obj"
           /\ EchoTotal(resps[k].cursor) < reqs[k].limit)
         => Len(reqs) = k
  /\ IsPrefix(emitted, ReceivedCards)

\* C6 (amended): after an empty page, or a page whose total (0 when the
\* response echoes no cursor) is less than the limit the response echoes
\* (the limit sent when it echoes none), no further page is fetched; the
\* cards are emitted in page order and within a page in the order received,
\* each once.
C6_EndsOnShortOfEchoed ==
  /\ \A k \in 1..Len(resps) :
       (resps[k].cards = <<>> \/ EchoTotal(resps[k].cursor) < LimitAfter(k))
         => Len(reqs) = k
  /\ IsPrefix(emitted, ReceivedCards)
  /\ pc \in {"advance", "fetch", "delete", "insert", "done"} =>
       emitted = ReceivedCards

C6_Witness ==
  /\ pc = "delete"
  /\ Len(resps) = 2
  /\ resps[1].cards # <<>>
  /\ resps[2].cards # <<>>
  /\ Len(emitted) = 2

\* a dimension that is missing, zero or no number
Missing(v) == v.t \in {"absent", "null"}
IsZero(v) ==
  \/ v.t = "num" /\ v.m = 0
  \/ v.t = "str" /\ ParseFloat(v.s).ok /\ ParseFloat(v.s).m = 0
NonNumeric(v) == (v.t = "str" /\ ~ParseFloat(v.s).ok) \/ v.t = "list"
BadDim(v) == Missing(v) \/ IsZero(v) \/ NonNumeric(v)

\* C7: build_row_from_card returns None for every card in which length,
\* width or height is missing, zero (a number or a numeric string) or no
\* number.
C7_NoneOnBadDimension ==
  (/\ pc = "returned"
   /\ card.dimensions.t = "obj"
   /\ \/ BadDim(card.dimensions.length)
      \/ BadDim(card.dimensions.width)
      \/ BadDim(card.dimensions.height))
    => result.kind = "none"

Positive(v) == v.t = "num" /\ v.m > 0

\* C8: every row returned has length_cm, width_cm and height_cm present and
\* strictly positive.
C8_PositiveDimensions ==
  (pc = "returned" /\ result.kind = "row") =>
     /\ Positive(result.row.length_cm)
     /\ Positive(result.row.width_cm)
     /\ Positive(result.row.height_cm)

\* C9: every row returned has a present, positive nm_id.
C9_PositiveNmId ==
  (pc = "returned" /\ result.kind = "row") => Positive(result.row.nm_id)

ValidDim(v) == Truthy(Get(v)) /\ PyFloat(Get(v)).ok

\* v is x = xm * 10^-xe (xe >= 3) rounded to 3 decimals: v has at most 3
\* decimals and is one of the two thousandths around x, the lower one only
\* if x lies at most half a thousandth above it, the upper one only if x
\* lies at most half a thousandth below it
IsRound3(v, xm, xe) ==
  /\ v.t = "num"
  /\ v.e <= 3
  /\ LET D == Pow10(xe - 3)
         q == Abs(xm) \div D
         r == Abs(xm) % D
         v3 == v.m * Pow10(3 - v.e)
     IN /\ v3 # 0 => Sign(v3) = Sign(xm)
        /\ \/ Abs(v3) = q /\ 2 * r <= D
           \/ Abs(v3) = q + 1 /\ 2 * r >= D

\* C10: for a card with valid numeric length, width and height the row's
\* volume_liters is length*width*height/1000 of the parsed, unrounded values,
\* rounded to 3 decimals.
C10_VolumeFromUnrounded ==
  (/\ pc = "returned"
   /\ card.dimensions.t = "obj"
   /\ ValidDim(card.dimensions.length)
   /\ ValidDim(card.dimensions.width)
   /\ ValidDim(card.dimensions.height))
    => /\ result.kind \in {"row", "raise"}
       /\ result.kind = "row" =>
            LET l == PyFloat(card.dimensions.length)
                w == PyFloat(card.dimensions.width)
                h == PyFloat(card.dimensions.height)
            IN IsRound3(result.row.volume_liters, l.m * w.m * h.m,
                        l.e + w.e + h.e + 3)

\* 1.004 x 100 x 100 cm is 10.04 litres; from the stored 1.0 cm it would be 10.0
C10_Witness ==
  /\ pc = "returned"
  /\ result.kind = "row"
  /\ card.dimensions.length = JNum(1004, 3)
  /\ result.row.length_cm = JInt(1)
  /\ result.row.volume_liters = JNum(1004, 2)

\* the fetch calls of this run
FetchCalls == SelectSeq(calls, LAMBDA c : c.op = "fetch")

\* C11 (as stated): a run that completes returns the number of rows it
\* inserted.
C11_ReturnsCountInserted ==
  pc = "done" => ret = JInt(Len(Flatten(inserted)))

\* C11 (amended): refresh_supabase_table returns nothing: a run that
\* completes returns None, and the number of rows it inserted is the length
\* of the buffer, which it only prints; a run that has not completed has
\* returned no value.
C11_ReturnsNone ==
  /\ pc = "done" => ret = JNull /\ Len(Flatten(inserted)) = Len(rows)
  /\ pc # "done" => ret = JAbsent

C11_Witness ==
  /\ pc = "done"
  /\ ret = JNull
  /\ Len(Flatten(inserted)) = 2

\* C13 (as stated): a non-empty page whose echoed total is less than the
\* limit sent in its request is the last page fetched and its cards are
\* emitted, whatever limit it echoes.
C13_EndsOnShortOfSent ==
  \A k \in 1..Len(resps) :
    (/\ resps[k].cards # <<>>
     /\ resps[k].cursor.t = "obj"
     /\ EchoTotal(resps[k].cursor) < reqs[k].limit)
      => /\ Len(reqs) = k
         /\ pc # "fetch"
         /\ pc \in {"advance", "delete", "insert", "done"} =>
              emitted = ReceivedCards

\* C13 (amended): a non-empty page whose echoed total is less than the limit
\* the same response echoes (the limit sent in the request when it echoes
\* none) is the last page fetched, and its cards are emitted.
C13_EndsOnShortOfEchoedLimit ==
  \A k \in 1..Len(resps) :
    (/\ resps[k].cards # <<>>
     /\ resps[k].cursor.t = "obj"
     /\ EchoTotal(resps[k].cursor) < LimitAfter(k))
      => /\ Len(reqs) = k
         /\ pc # "fetch"
         /\ pc \in {"advance", "delete", "insert", "done"} =>
              emitted = ReceivedCards

C13_Witness ==
  /\ pc = "delete"
  /\ Len(resps) = 2
  /\ resps[1].cursor = Echo(JInt(50), JInt(10), CardA.updatedAt, CardA.nmID)
  /\ resps[2].cursor = Echo(JInt(50), JInt(100), CardC.updatedAt, CardC.nmID)
  /\ emitted = <<CardA, CardC>>

\* C14 (as stated): the first request carries only the limit; every later
\* request carries the updatedAt and nmID the preceding response echoed;
\* the limit of every request is the page size iter_wb_cards was called
\* with.
C14_LimitIsPageSize ==
  /\ reqs # <<>> => reqs[1] = FirstCursor(DefaultLimit)
  /\ \A k \in 2..Len(reqs) :
       /\ resps[k - 1].cursor.t = "obj"
       /\ reqs[k].updatedAt = Get(resps[k - 1].cursor.updatedAt)
       /\ reqs[k].nmID = Get(resps[k - 1].cursor.nmID)
  /\ \A k \in 1..Len(reqs) : reqs[k].limit = DefaultLimit

\* C14 (amended): the first request carries only the limit, the page size
\* iter_wb_cards was called with; every later request carries the updatedAt
\* and nmID the preceding response echoed, and as limit the one that
\* response echoed (the limit of the preceding request when it echoed
\* none).
C14_RequestCursors ==
  /\ reqs # <<>> => reqs[1] = FirstCursor(DefaultLimit)
  /\ \A k \in 2..Len(reqs) :
       /\ resps[k - 1].cursor.t = "obj"
       /\ reqs[k].updatedAt = Get(resps[k - 1].cursor.updatedAt)
       /\ reqs[k].nmID = Get(resps[k - 1].cursor.nmID)
       /\ reqs[k].limit = LimitAfter(k - 1)

C14_Witness ==
  /\ Len(reqs) = 3
  /\ resps[1].cards = <<CardA>>
  /\ resps[2].cards = <<CardB>>
  /\ reqs[2] = [limit |-> 10, updatedAt |-> CardA.updatedAt, nmID |-> CardA.nmID]
  /\ reqs[3] = [limit |-> 100, updatedAt |-> CardB.updatedAt, nmID |-> CardB.nmID]

C16_NoRetry ==
  /\ \A k \in 1..Len(calls) :
       ~calls[k].ok => k = Len(calls) /\ pc = "failed"
  /\ Len(FetchCalls) = Len(reqs)
  /\ Len(SelectSeq(calls, LAMBDA c : c.op = "delete")) <= 1
  /\ Len(SelectSeq(calls, LAMBDA c : c.op = "insert")) = Len(inserted)
  /\ IsPrefix(Flatten(inserted), rows)

C16_Witness ==
  /\ pc = "failed"
  /\ Len(calls) >= 3
  /\ calls[Len(calls)] = Call("insert", FALSE)

\* C17: when an insert fails after the delete succeeded, the run has ended
\* and the table holds the batches posted before it, in order, and nothing
\* else: no row of the table the run found, and nothing restored.
C17_FailedInsertLeavesPrefix ==
  (calls # <<>> /\ calls[Len(calls)] = Call("insert", FALSE)) =>
    /\ pc = "failed"
    /\ DestCalls[1] = Call("delete", TRUE)
    /\ dest = Flatten(SubSeq(inserted, 1, Len(inserted) - 1))
    /\ IsPrefix(dest, rows) /\ dest # rows

\* C18: when a page fetch fails the run has ended without a delete or an
\* insert call, and the table is as the run found it, however many pages
\* were fetched before.
C18_FetchFailLeavesTable ==
  (\E k \in 1..Len(calls) : calls[k] = Call("fetch", FALSE)) =>
    /\ pc = "failed"
    /\ DestCalls = <<>>
    /\ inserted = <<>>
    /\ dest = snapshot

C18_Witness ==
  /\ pc = "failed"
  /\ calls = <<Call("fetch", TRUE), Call("fetch", FALSE)>>
  /\ rows # <<>>
  /\ snapshot # <<>>
  /\ dest = snapshot

\* a weight that is given and that float() does not take
BadWeight(c) ==
  LET w == Get(DimensionsOf(c).weightBrutto)
  IN w.t # "null" /\ ~PyFloat(w).ok

ValidDims(c) ==
  LET d == DimensionsOf(c)
  IN ValidDim(d.length) /\ ValidDim(d.width) /\ ValidDim(d.height)

\* C19: a card with valid length, width and height and a weight that is
\* given and no number makes build_row_from_card raise, and the run ends
\* there, before any delete, with the table as the run found it; a card with
\* the same weight and a missing or invalid dimension raises nothing and
\* gives no row.
C19_BadWeightRaises ==
  \A k \in 1..Len(built) :
    BadWeight(emitted[k]) =>
      IF ValidDims(emitted[k])
        THEN /\ built[k] = "raise"
             /\ k = Len(built)
             /\ pc = "failed"
             /\ DestCalls = <<>>
             /\ dest = snapshot
        ELSE built[k] = "none"

C19_Witness ==
  /\ pc = "failed"
  /\ emitted = <<CardB, CardD>>
  /\ built = <<"none", "raise">>
  /\ snapshot # <<>>
  /\ dest = snapshot

\* C20: a run that completes with an empty buffer has issued the delete and
\* no insert, and leaves the table empty.
C20_NoRowsLeavesEmpty ==
  (pc = "done" /\ rows = <<>>) =>
    /\ DestCalls = <<Call("delete", TRUE)>>
    /\ dest = <<>>

====
